---------------------------- MODULE Spec2Model ----------------------------
(***************************************************************************)
(* Model of the Grok message translation and streaming response assembly   *)
(* of gen-ui-computer-use:                                                 *)
(*   - GrokStreamingClient.streamChatCompletion (async generator),         *)
(*   - GrokChatModel._generate / _streamGenerate,                          *)
(*   - GrokClient.createChatCompletion (single-shot call).                 *)
(*                                                                         *)
(* Text is a sequence of one-character strings.  A JSON value is a record  *)
(* [t, n, s, o]: t is "obj", "num" or "str"; n the number; s the string's  *)
(* characters; o the object's members, a set of <<key, value>> pairs.      *)
(***************************************************************************)
EXTENDS Integers, Sequences, FiniteSets, TLC

\* ------------------------------------------------------------------------
\* JSON values and JSON.parse on the grammar
\*   value  ::= object | string | number
\*   object ::= '{' '}' | '{' member (',' member)* '}'
\*   member ::= string ':' value
\*   string ::= '"' letter* '"'
\*   number ::= digit+
\* ------------------------------------------------------------------------
Digits == {"1", "2"}

Letters == {"a", "b", "t", "y", "s"}

DigitVal(c) == IF c = "1" THEN 1 ELSE 2

JNum(k) == [t |-> "num", n |-> k, s |-> <<>>, o |-> {}]

JStr(cs) == [t |-> "str", n |-> 0, s |-> cs, o |-> {}]

JObj(ms) == [t |-> "obj", n |-> 0, s |-> <<>>, o |-> ms]

EmptyObj == JObj({})

Keys(ms) == {m[1] : m \in ms}

\* Object.assign order: a later member with the same key replaces the earlier.
PutMember(ms, k, v) == {m \in ms : m[1] # k} \cup {<<k, v>>}

\* The parser reads the text once, left to right.  mode is what it expects:
\* "value"; "key0" (after an opening brace: a key or the closing brace);
\* "key"; "inkey" / "instr" (inside a key / a string value); "colon";
\* "num" (inside a number); "after" (after a value); "fail".
\* stack holds, for every object still open, its members so far and the key
\* whose value is being read.
ParseStart ==
    [mode |-> "value", stack |-> <<>>, str |-> <<>>, num |-> 0, val |-> EmptyObj]

\* a value v is complete
Finish(st, v) ==
    IF st.stack = <<>>
        THEN [st EXCEPT !.mode = "after", !.val = v]
        ELSE LET n == Len(st.stack) IN
             [st EXCEPT !.mode = "after",
                        !.stack[n].ms = PutMember(@, st.stack[n].key, v)]

\* the character c after a complete value
AfterValue(st, c) ==
    IF st.stack = <<>> THEN [st EXCEPT !.mode = "fail"]
    ELSE IF c = "," THEN [st EXCEPT !.mode = "key"]
    ELSE IF c = "}"
        THEN LET n == Len(st.stack) IN
             Finish([st EXCEPT !.stack = SubSeq(@, 1, n - 1)], JObj(st.stack[n].ms))
    ELSE [st EXCEPT !.mode = "fail"]

ParseStep(st, c) ==
    CASE st.mode = "value" ->
            IF c \in Digits THEN [st EXCEPT !.mode = "num", !.num = DigitVal(c)]
            ELSE IF c = "\"" THEN [st EXCEPT !.mode = "instr", !.str = <<>>]
            ELSE IF c = "{"
                THEN [st EXCEPT !.mode = "key0",
                                !.stack = Append(@, [ms |-> {}, key |-> <<>>])]
            ELSE [st EXCEPT !.mode = "fail"]
      [] st.mode \in {"key0", "key"} ->
            IF c = "\"" THEN [st EXCEPT !.mode = "inkey", !.str = <<>>]
            ELSE IF c = "}" /\ st.mode = "key0" THEN AfterValue([st EXCEPT !.mode = "after"], c)
            ELSE [st EXCEPT !.mode = "fail"]
      [] st.mode = "inkey" ->
            IF c = "\"" THEN [st EXCEPT !.mode = "colon", !.stack[Len(st.stack)].key = st.str]
            ELSE IF c \in Letters \cup Digits THEN [st EXCEPT !.str = Append(@, c)]
            ELSE [st EXCEPT !.mode = "fail"]
      [] st.mode = "colon" ->
            IF c = ":" THEN [st EXCEPT !.mode = "value"] ELSE [st EXCEPT !.mode = "fail"]
      [] st.mode = "instr" ->
            IF c = "\"" THEN Finish(st, JStr(st.str))
            ELSE IF c \in Letters \cup Digits THEN [st EXCEPT !.str = Append(@, c)]
            ELSE [st EXCEPT !.mode = "fail"]
      [] st.mode = "num" ->
            IF c \in Digits THEN [st EXCEPT !.num = @ * 10 + DigitVal(c)]
            ELSE AfterValue(Finish(st, JNum(st.num)), c)
      [] st.mode = "after" -> AfterValue(st, c)
      [] OTHER -> st

RECURSIVE ParseRun(_, _, _)
ParseRun(s, i, st) == IF i > Len(s) THEN st ELSE ParseRun(s, i + 1, ParseStep(st, s[i]))

\* JSON.parse(text): ok is FALSE where JSON.parse throws a SyntaxError
ParseResult(st) ==
    IF st.stack = <<>> /\ st.mode = "after" THEN [ok |-> TRUE, v |-> st.val]
    ELSE IF st.stack = <<>> /\ st.mode = "num" THEN [ok |-> TRUE, v |-> JNum(st.num)]
    ELSE [ok |-> FALSE, v |-> EmptyObj]

JSONParse(s) == ParseResult(ParseRun(s, 1, ParseStart))

\* the property name of the i-th character of a string (JavaScript counts from 0)
IndexKey(i) == <<(<<"0", "1", "2", "3", "4", "5", "6", "7", "8", "9">>)[i]>>

\* own enumerable properties that object spread ({...v}) copies from v:
\* the members of an object, the indexed characters of a string, nothing
\* of a number
OwnProps(v) ==
    IF v.t = "obj" THEN v.o
    ELSE IF v.t = "str" THEN {<<IndexKey(i), JStr(<<v.s[i]>>)>> : i \in 1..Len(v.s)}
    ELSE {}

\* { ...a, ...b }
Merge(pa, pb) == JObj({m \in pa : m[1] \notin Keys(pb)} \cup pb)

Spread(a, b) == Merge(OwnProps(a), OwnProps(b))

\* ------------------------------------------------------------------------
\* Stream text.  A token is a piece of the byte stream: the newline, the
\* "data: " marker, the "[DONE]" sentinel, whitespace other than newline,
\* other text, and the two halves of an event's JSON text: "open" carries
\* everything up to the last brace, "close" is the last brace.
\* ------------------------------------------------------------------------
NoFrag == [index |-> 0, id |-> "", fn |-> FALSE, name |-> "", arguments |-> <<>>]

\* a parsed event (jsonData): choice is choices && choices[0]; delta is
\* whether choices[0].delta is an object; "" / 0 / <<>> stand for absent
NoEvent ==
    [choice |-> FALSE, delta |-> FALSE, id |-> "", model |-> "", usage |-> 0,
     content |-> <<>>, tool_calls |-> <<>>]

Tok(k) == [k |-> k, ev |-> NoEvent]

NL == Tok("nl")

DataTok == Tok("data")

DoneTok == Tok("done")

WsTok == Tok("ws")

TxtTok == Tok("txt")

CloseTok == Tok("close")

OpenTok(e) == [k |-> "open", ev |-> e]

\* String.prototype.split('\n'): the pieces between newlines, the last piece
\* being what follows the last newline (possibly empty)
RECURSIVE SplitNL(_, _, _)
SplitNL(s, i, cur) ==
    IF i > Len(s) THEN <<cur>>
    ELSE IF s[i] = NL THEN <<cur>> \o SplitNL(s, i + 1, <<>>)
    ELSE SplitNL(s, i + 1, Append(cur, s[i]))

Split(s) == SplitNL(s, 1, <<>>)

RECURSIVE TrimLeft(_)
TrimLeft(s) == IF s # <<>> /\ Head(s) = WsTok THEN TrimLeft(Tail(s)) ELSE s

RECURSIVE TrimRight(_)
TrimRight(s) ==
    IF s # <<>> /\ s[Len(s)] = WsTok THEN TrimRight(SubSeq(s, 1, Len(s) - 1)) ELSE s

\* String.prototype.trim
Trim(s) == TrimRight(TrimLeft(s))

StartsWithData(s) == s # <<>> /\ Head(s) = DataTok

\* JSON.parse of an event payload: the text is JSON exactly when it is an
\* opening part followed by its closing brace (surrounding whitespace allowed)
ParseTrimmed(t) ==
    IF Len(t) = 2 /\ t[1].k = "open" /\ t[2] = CloseTok
        THEN [ok |-> TRUE, ev |-> t[1].ev]
        ELSE [ok |-> FALSE, ev |-> NoEvent]

ParseEvent(dataStr) == ParseTrimmed(Trim(dataStr))

\* ------------------------------------------------------------------------
\* The accumulator of one streaming call
\* ------------------------------------------------------------------------
EmptyCall == [id |-> "", name |-> "", args |-> EmptyObj, argsString |-> <<>>]

EmptyMeta == [id |-> "", model |-> "", usage |-> 0]

EmptyAcc == [content |-> <<>>, toolCalls |-> <<>>, meta |-> EmptyMeta]

RECURSIVE Pad(_, _)
Pad(tcs, index) == IF Len(tcs) <= index THEN Pad(Append(tcs, EmptyCall), index) ELSE tcs

\* a variant that stores the fragment's id and name even when they are empty
SetIdNameAlways(tc, f) == [tc EXCEPT !.id = f.id, !.name = f.name]

SetIdName(tc, f) ==
    [tc EXCEPT !.id = IF f.id # "" THEN f.id ELSE @,
               !.name = IF f.fn /\ f.name # "" THEN f.name ELSE @]

\* toolCall.args = { ...toolCall.args, ...parsed }, or the SyntaxError
MergeOrThrow(tc, p) ==
    IF p.ok THEN [tc |-> [tc EXCEPT !.args = Spread(@, p.v)], threw |-> FALSE]
            ELSE [tc |-> tc, threw |-> TRUE]

\* GrokStreamingClient: the fragment's arguments text is parsed on its own;
\* a SyntaxError leaves the handler of the event (threw)
ClientArgs(tc, f) ==
    IF f.fn /\ f.arguments # <<>>
        THEN MergeOrThrow(tc, JSONParse(f.arguments))
        ELSE [tc |-> tc, threw |-> FALSE]

\* toolCall.args = JSON.parse(toolCall.argsString), unless that throws
Reparse(tc, q) == [tc EXCEPT !.args = IF q.ok THEN q.v ELSE @]

\* toolCall.argsString = (toolCall.argsString || "") + arguments
Accumulate(tc, str) == Reparse([tc EXCEPT !.argsString = str], JSONParse(str))

MergeOrAccumulate(tc, f, p) ==
    IF p.ok THEN [tc |-> [tc EXCEPT !.args = Spread(@, p.v)], threw |-> FALSE]
            ELSE [tc |-> Accumulate(tc, tc.argsString \o f.arguments), threw |-> FALSE]

\* GrokChatModel._streamGenerate: a fragment that parses on its own is merged;
\* one that does not is appended to argsString, which is parsed again
ModelArgs(tc, f) ==
    IF f.fn /\ f.arguments # <<>>
        THEN MergeOrAccumulate(tc, f, JSONParse(f.arguments))
        ELSE [tc |-> tc, threw |-> FALSE]

PutCall(tcs, i, r) == [tcs |-> [tcs EXCEPT ![i] = r.tc], threw |-> r.threw]

\* the fragment f applied to the list, already grown to hold its index
ApplyAt(im, padded, f) ==
    PutCall(padded, f.index + 1,
            IF im = "client" THEN ClientArgs(SetIdName(padded[f.index + 1], f), f)
                             ELSE ModelArgs(SetIdName(padded[f.index + 1], f), f))

\* a variant that appends an entry for every fragment instead of using its index
ApplyFragmentPush(im, tcs, f) ==
    ApplyAt(im, Append(tcs, EmptyCall), [f EXCEPT !.index = Len(tcs)])

\* one iteration of "for (const toolCallDelta of delta.tool_calls)"
ApplyFragment(im, tcs, f) == ApplyAt(im, Pad(tcs, f.index), f)

Counted(r, n) == [tcs |-> r.tcs, threw |-> r.threw, n |-> n]

RECURSIVE FoldFragments(_, _, _)
FoldFragments(im, r, fs) ==
    IF fs = <<>> \/ r.threw THEN r
    ELSE FoldFragments(im, Counted(ApplyFragment(im, r.tcs, Head(fs)), r.n + 1), Tail(fs))

\* the whole loop over delta.tool_calls; it stops at the first throw; n is the
\* number of iterations begun
ApplyFragments(im, tcs, fs) ==
    FoldFragments(im, [tcs |-> tcs, threw |-> FALSE, n |-> 0], fs)

UpdateMeta(meta, e) ==
    [id |-> IF e.id # "" THEN e.id ELSE meta.id,
     model |-> IF e.model # "" THEN e.model ELSE meta.model,
     usage |-> IF e.usage # 0 THEN e.usage ELSE meta.usage]

\* what an AIMessage carries of the accumulator
CallOf(tc) == [id |-> tc.id, name |-> tc.name, args |-> tc.args]

Calls(tcs) == [i \in 1..Len(tcs) |-> CallOf(tcs[i])]

\* a variant that builds a message of no particular type
MessageGeneric(content, calls, meta) ==
    [type |-> "generic", content |-> content, tool_calls |-> calls, meta |-> meta]

\* new AIMessage({content, tool_calls, response_metadata})
Message(content, calls, meta) ==
    [type |-> "ai", content |-> content, tool_calls |-> calls, meta |-> meta]

\* new AIMessage({content, tool_calls: accumulatedToolCalls, response_metadata})
Snapshot(a) == Message(a.content, Calls(a.toolCalls), a.meta)

RECURSIVE SelectSeq2(_)
SelectSeq2(tcs) ==
    IF tcs = <<>> THEN <<>>
    ELSE IF Head(tcs).id # "" /\ Head(tcs).name # ""
        THEN <<Head(tcs)>> \o SelectSeq2(Tail(tcs))
        ELSE SelectSeq2(Tail(tcs))

\* accumulatedToolCalls.filter(tc => tc.id && tc.name)
FilterCalls(tcs) == SelectSeq2(tcs)

\* the message a streaming call ends with
ClientFinal(a) == Snapshot(a)

ModelFinal(a) == Message(a.content, Calls(FilterCalls(a.toolCalls)), a.meta)

ScreenshotArgs ==
    JObj({<< <<"action">>, JObj({<< <<"type">>, JStr(<<"screenshot">>)>>}) >>})

FallbackCall(im) ==
    [id |-> "fallback_screenshot",
     name |-> IF im = "client" THEN "computer_use" ELSE "computer_use_preview",
     args |-> ScreenshotArgs]

\* the scripted message of the catch blocks
Fallback(im) ==
    Message(<<"I'm having trouble connecting to the Grok API.">>, <<FallbackCall(im)>>,
            IF im = "client"
                THEN [id |-> "fallback_response", model |-> "grok-2-vision-1212", usage |-> 50]
                ELSE EmptyMeta)

\* a variant without the catch blocks
CaughtNowhere(im, p) == FALSE

\* a variant in which _generate awaits _streamGenerate inside its try block
CaughtAwaited(im, p) == p = "single" \/ im = "model"

\* Is an error raised on path p handled by the catch block of the entry point?
\* createChatCompletion and the non-streaming branch of _generate run inside
\* try/catch; streamChatCompletion has no catch, and _generate returns the
\* promise of _streamGenerate without awaiting it, so its rejection passes
\* the catch block
Caught(im, p) == p = "single"

VARIABLES
    impl,      \* "client": the classes of part_000; "model": GrokChatModel
    path,      \* "stream" or "single" (non-streaming request)
    pc,        \* control position of the call
    buffer,    \* text after the last newline received
    pending,   \* lines of the current chunk still to be processed
    cur,       \* client, suspended after the content snapshot: the fragments of the event
    acc,       \* accumulatedContent, accumulatedToolCalls, responseMetadata
    last,      \* <<the last snapshot yielded>> or <<>>
    yields,    \* number of snapshots yielded
    finals,    \* number of final snapshots yielded
    result,    \* <<the message returned>> or <<>>
    outcome,   \* "none", "message", "fallback" or "error"
    cause,     \* what ended the call
    acquired,  \* response.body.getReader() was called
    released,  \* reader.releaseLock() was called
    sawDone,   \* a [DONE] data line was processed
    lastLine,  \* kind of the line processed last
    maxIdx,    \* largest fragment index processed, -1 when none
    seen,      \* per index: the last non-empty id and name processed, and the number of fragments
    badSeen,   \* a data line that is not JSON was processed
    lastFinal, \* the last snapshot yielded was a final one
    nLines,    \* number of lines received
    text,      \* the arguments text the server streams for invocation 0
    unsent,    \* the part of text not yet sent
    stage,     \* what the server has sent of invocation 0
    argFrags,  \* number of arguments fragments sent
    anyAlone,  \* some arguments fragment sent was JSON on its own
    consumer,  \* the consumer of the generator: "active", "closed" (it called return) or "gone"
    entry,     \* the entry point called, "none" where the call starts at the request
    apiKey,    \* XAI_API_KEY is configured
    zdr,       \* configuration.zdrEnabled
    prompt,    \* configuration.prompt: "none", "string" or "message"
    history,   \* state.messages
    wire,      \* the messages of the chat-completions request, <<>> before it is built
    requests,  \* number of chat-completions requests started
    fetched,   \* number of tool-result URLs fetched
    tokens,    \* the arguments of the calls of runManager.onLLMNewToken, in order
    optStream, \* options.stream of _generate: "unset", "true" or "false"
    hasCallback, \* runManager.onLLMNewToken is registered
    pair       \* two streaming calls side by side, <<>> where there is one call

vars ==
    <<impl, path, pc, buffer, pending, cur, acc, last, yields, finals, result, outcome,
      cause, acquired, released, sawDone, lastLine, maxIdx, seen, badSeen, lastFinal, nLines,
      text, unsent, stage, argFrags, anyAlone, consumer, entry, apiKey, zdr, prompt, history,
      wire, requests, fetched, tokens, optStream, hasCallback, pair>>

\* the server's side of a streamed invocation
feed == <<text, unsent, stage, argFrags, anyAlone>>

\* the caller's side: configuration, conversation and what went to the network
call == <<entry, apiKey, zdr, prompt, history, wire, requests, fetched>>

\* the options of _generate and the second call, which no step of one call changes
other == <<optStream, hasCallback, pair>>

\* ------------------------------------------------------------------------
\* One line of the for loop
\* ------------------------------------------------------------------------
\* "skip": not a data line; "done": the sentinel; "bad": payload is not JSON;
\* "event": a parsed event
KindOfTrimmed(t) ==
    IF ~StartsWithData(t) THEN "skip"
    ELSE IF Tail(t) = <<DoneTok>> THEN "done"
    ELSE IF ~ParseEvent(Tail(t)).ok THEN "bad"
    ELSE "event"

LineKind(line) == KindOfTrimmed(Trim(line))

LineEvent(line) == ParseEvent(Tail(Trim(line))).ev

\* a variant that keeps only the latest content delta
EventHeadReplace(a, e) ==
    IF ~e.choice THEN [acc |-> a, content |-> FALSE, fragments |-> <<>>]
    ELSE IF ~e.delta
        THEN [acc |-> [a EXCEPT !.meta = UpdateMeta(@, e)], content |-> FALSE,
              fragments |-> <<>>]
    ELSE [acc |-> [a EXCEPT !.meta = UpdateMeta(@, e),
                            !.content = IF e.content # <<>> THEN e.content ELSE @],
          content |-> e.content # <<>>,
          fragments |-> e.tool_calls]

\* metadata and content of an event; fragments are the tool-call fragments
\* still to be applied (none when reading delta throws)
EventHead(a, e) ==
    IF ~e.choice THEN [acc |-> a, content |-> FALSE, fragments |-> <<>>]
    ELSE IF ~e.delta
        THEN [acc |-> [a EXCEPT !.meta = UpdateMeta(@, e)], content |-> FALSE,
              fragments |-> <<>>]
    ELSE [acc |-> [a EXCEPT !.meta = UpdateMeta(@, e), !.content = @ \o e.content],
          content |-> e.content # <<>>,
          fragments |-> e.tool_calls]

MaxOf(S, d) == IF S = {} THEN d ELSE CHOOSE m \in S : \A k \in S : k <= m

\* the loop over the fragments fs, from accumulator a
ToolsResult(a, fs, r) ==
    [acc |-> [a EXCEPT !.toolCalls = r.tcs], threw |-> r.threw, n |-> r.n,
     top |-> MaxOf({fs[i].index : i \in 1..r.n}, -1)]

EventTools(im, a, fs) == ToolsResult(a, fs, ApplyFragments(im, a.toolCalls, fs))

Max(a, b) == IF a >= b THEN a ELSE b

\* What the fragments processed so far say about each index, kept beside the
\* accumulator: the last non-empty id and name, how many fragments came, and
\* whether the first of them carried neither id nor name
NoteOne(sn, f) ==
    [i \in 1..Max(Len(sn), f.index + 1) |->
        IF i = f.index + 1
            THEN [id |-> IF f.id # "" THEN f.id ELSE IF i <= Len(sn) THEN sn[i].id ELSE "",
                  name |-> IF f.name # "" THEN f.name
                           ELSE IF i <= Len(sn) THEN sn[i].name ELSE "",
                  n |-> IF i <= Len(sn) THEN sn[i].n + 1 ELSE 1,
                  bare |-> IF i <= Len(sn) /\ sn[i].n > 0 THEN sn[i].bare
                           ELSE f.id = "" /\ f.name = ""]
        ELSE IF i <= Len(sn) THEN sn[i]
        ELSE [id |-> "", name |-> "", n |-> 0, bare |-> FALSE]]

RECURSIVE Noted(_, _, _)
Noted(sn, fs, n) == IF n = 0 THEN sn ELSE Noted(NoteOne(sn, Head(fs)), Tail(fs), n - 1)

\* back to the head of the for loop, or of the while loop after the last line
Advance(rest) ==
    /\ pending' = rest
    /\ pc' = IF rest = <<>> THEN "read" ELSE "lines"

ToolsEffect(r, fs, rest) ==
    /\ acc' = r.acc
    /\ maxIdx' = Max(maxIdx, r.top)
    /\ seen' = Noted(seen, fs, r.n)
    /\ cur' = <<>>
    /\ IF impl = "client" /\ fs # <<>> /\ ~r.threw
          THEN /\ last' = <<Snapshot(r.acc)>>
               /\ lastFinal' = FALSE
               /\ yields' = yields + 1
               /\ pending' = rest
               /\ pc' = "yieldTools"
          ELSE /\ UNCHANGED <<last, lastFinal, yields>>
               /\ Advance(rest)

\* the fragments fs of the current event are applied; the client then yields
\* a snapshot unless a fragment's arguments threw
ToolsPhase(a, fs, rest) == ToolsEffect(EventTools(impl, a, fs), fs, rest)

\* an event's metadata and content are taken; the client yields a snapshot
\* after new content, before it turns to the fragments
EventEffect(h, rest) ==
    IF impl = "client" /\ h.content
        THEN /\ acc' = h.acc
             /\ last' = <<Snapshot(h.acc)>>
             /\ lastFinal' = FALSE
             /\ yields' = yields + 1
             /\ cur' = h.fragments
             /\ pending' = rest
             /\ pc' = "yieldContent"
             /\ UNCHANGED <<maxIdx, seen>>
        ELSE ToolsPhase(h.acc, h.fragments, rest)

\* a variant whose catch block encloses the for loop: the chunk's other lines are lost
BadLineLeavesLoop(rest) ==
    /\ pending' = <<>>
    /\ pc' = "read"
    /\ badSeen' = TRUE
    /\ UNCHANGED <<cur, acc, last, lastFinal, yields, finals, sawDone, maxIdx, seen>>

\* catch (error) { console.warn(...) }: on to the next line
BadLine(rest) ==
    /\ Advance(rest)
    /\ badSeen' = TRUE
    /\ UNCHANGED <<cur, acc, last, lastFinal, yields, finals, sawDone, maxIdx, seen>>

\* a variant without the return after the yield
ClientDoneNoReturn(rest) ==
    /\ last' = <<ClientFinal(acc)>>
    /\ lastFinal' = TRUE
    /\ yields' = yields + 1
    /\ finals' = finals + 1
    /\ Advance(rest)
    /\ sawDone' = TRUE
    /\ UNCHANGED <<cur, acc, maxIdx, seen, badSeen>>

\* GrokStreamingClient at [DONE]: yield the final message; the return follows
\* when the consumer resumes the generator
ClientDone(rest) ==
    /\ last' = <<ClientFinal(acc)>>
    /\ lastFinal' = TRUE
    /\ yields' = yields + 1
    /\ finals' = finals + 1
    /\ pc' = "yieldDone"
    /\ pending' = rest
    /\ sawDone' = TRUE
    /\ UNCHANGED <<cur, acc, maxIdx, seen, badSeen>>

\* GrokChatModel at [DONE]: break, which leaves the for loop only
ModelDone(rest) ==
    /\ pending' = <<>>
    /\ pc' = "read"
    /\ sawDone' = TRUE
    /\ UNCHANGED <<cur, acc, last, lastFinal, yields, finals, maxIdx, seen, badSeen>>

LineEffect(kind, line, rest) ==
    /\ lastLine' = kind
    /\ CASE kind = "skip" ->
              /\ Advance(rest)
              /\ UNCHANGED <<cur, acc, last, lastFinal, yields, finals, sawDone, badSeen,
                             maxIdx, seen>>
         [] kind = "bad" -> BadLine(rest)
         [] kind = "done" /\ impl = "client" -> ClientDone(rest)
         [] kind = "done" /\ impl = "model" -> ModelDone(rest)
         [] kind = "event" ->
              /\ UNCHANGED <<finals, sawDone, badSeen>>
              /\ EventEffect(EventHead(acc, LineEvent(line)), rest)

\* if (delta.content) { ...; if (runManager?.onLLMNewToken) await
\* runManager.onLLMNewToken(delta.content) }: the callback's arguments after
\* the line
Called(tk, line) ==
    IF impl = "model" /\ hasCallback /\ LineKind(line) = "event"
            /\ EventHead(acc, LineEvent(line)).content
        THEN Append(tk, LineEvent(line).content)
        ELSE tk

\* lines 62-150 of part_000 / 279-362 of grok-patch.ts: one iteration
ProcessLine ==
    /\ pc = "lines"
    /\ pending # <<>>
    /\ LineEffect(LineKind(Head(pending)), Head(pending), Tail(pending))
    /\ tokens' = Called(tokens, Head(pending))
    /\ UNCHANGED <<impl, path, buffer, result, outcome, cause, acquired, released, nLines>>
    /\ UNCHANGED feed
    /\ UNCHANGED <<consumer, call, other>>

\* the consumer asks the generator for its next element
Resume ==
    /\ impl = "client"
    /\ consumer = "active"
    /\ CASE pc = "yieldContent" ->
              /\ ToolsPhase(acc, cur, pending)
              /\ UNCHANGED <<finals, released, outcome, cause>>
         [] pc = "yieldTools" ->
              /\ Advance(pending)
              /\ UNCHANGED <<cur, acc, last, lastFinal, yields, finals, maxIdx, seen, released, outcome, cause>>
         [] pc = "yieldDone" ->
              \* return inside try: the finally block runs
              /\ released' = TRUE
              /\ pc' = "done"
              /\ outcome' = "message"
              /\ cause' = "sentinel"
              /\ UNCHANGED <<pending, cur, acc, last, lastFinal, yields, finals, maxIdx, seen>>
         [] pc = "yieldEnd" ->
              /\ pc' = "done"
              /\ outcome' = "message"
              /\ cause' = "close"
              /\ UNCHANGED <<pending, cur, acc, last, lastFinal, yields, finals, maxIdx, seen, released>>
         [] OTHER -> FALSE
    /\ UNCHANGED <<impl, path, buffer, result, acquired, sawDone, badSeen, lastLine, nLines>>
    /\ UNCHANGED feed
    /\ UNCHANGED <<consumer, call, other, tokens>>

\* ------------------------------------------------------------------------
\* The request, the reads and the ends of a call
\* ------------------------------------------------------------------------
\* an error thrown on the way: the scripted message where a catch block
\* handles it, the caller's error otherwise
Raise(why) ==
    /\ cause' = why
    /\ IF Caught(impl, path)
          THEN /\ outcome' = "fallback"
               /\ result' = <<Fallback(impl)>>
               /\ pc' = "done"
          ELSE /\ outcome' = "error"
               /\ result' = <<>>
               /\ pc' = "error"

\* fetch() rejects: network failure
FetchReject ==
    /\ pc = "fetch"
    /\ Raise("network")
    /\ UNCHANGED <<impl, path, buffer, pending, cur, acc, last, lastFinal, yields, finals, acquired,
                   released, sawDone, badSeen, lastLine, maxIdx, seen, nLines>>
    /\ UNCHANGED feed
    /\ UNCHANGED <<consumer, call, other, tokens>>

\* !response.ok
HttpError ==
    /\ pc = "fetch"
    /\ Raise("status")
    /\ UNCHANGED <<impl, path, buffer, pending, cur, acc, last, lastFinal, yields, finals, acquired,
                   released, sawDone, badSeen, lastLine, maxIdx, seen, nLines>>
    /\ UNCHANGED feed
    /\ UNCHANGED <<consumer, call, other, tokens>>

\* streaming: response.body is missing
NoBody ==
    /\ pc = "fetch"
    /\ path = "stream"
    /\ Raise("nobody")
    /\ UNCHANGED <<impl, path, buffer, pending, cur, acc, last, lastFinal, yields, finals, acquired,
                   released, sawDone, badSeen, lastLine, maxIdx, seen, nLines>>
    /\ UNCHANGED feed
    /\ UNCHANGED <<consumer, call, other, tokens>>

\* streaming: response.body.getReader(), then the accumulators are set up
OpenStream ==
    /\ pc = "fetch"
    /\ path = "stream"
    /\ acquired' = TRUE
    /\ buffer' = <<>>
    /\ acc' = EmptyAcc
    /\ pc' = "read"
    /\ UNCHANGED <<impl, path, pending, cur, last, lastFinal, yields, finals, result, outcome, cause,
                   released, sawDone, badSeen, lastLine, maxIdx, seen, nLines>>
    /\ UNCHANGED feed
    /\ UNCHANGED <<consumer, call, other, tokens>>

NumLines(chunk) == Cardinality({i \in 1..Len(chunk) : chunk[i] = NL})

\* const lines = buffer.split('\n'); buffer = lines.pop() || ""
TakeLines(lines) ==
    /\ buffer' = lines[Len(lines)]
    /\ pending' = SubSeq(lines, 1, Len(lines) - 1)
    /\ pc' = IF Len(lines) = 1 THEN "read" ELSE "lines"

\* reader.read() gives a chunk: it is appended to the buffer, the complete
\* lines are taken and the rest is kept
Read(chunk) ==
    /\ pc = "read"
    /\ TakeLines(Split(buffer \o chunk))
    /\ nLines' = nLines + NumLines(chunk)
    /\ UNCHANGED <<impl, path, cur, acc, last, lastFinal, yields, finals, result, outcome, cause,
                   acquired, released, sawDone, badSeen, lastLine, maxIdx, seen>>
    /\ UNCHANGED <<consumer, call, other, tokens>>

\* reader.read() gives done: break, finally, and the final message
ReadDone ==
    /\ pc = "read"
    /\ released' = TRUE
    /\ IF impl = "client"
          THEN /\ last' = <<ClientFinal(acc)>>
               /\ lastFinal' = TRUE
               /\ yields' = yields + 1
               /\ finals' = finals + 1
               /\ pc' = "yieldEnd"
               /\ UNCHANGED <<result, outcome, cause>>
          ELSE /\ result' = <<ModelFinal(acc)>>
               /\ outcome' = "message"
               /\ cause' = IF sawDone THEN "sentinel" ELSE "close"
               /\ pc' = "done"
               /\ UNCHANGED <<last, lastFinal, yields, finals>>
    /\ UNCHANGED <<impl, path, buffer, pending, cur, acc, acquired, sawDone, badSeen, lastLine,
                   maxIdx, seen, nLines>>
    /\ UNCHANGED feed
    /\ UNCHANGED <<consumer, call, other, tokens>>

\* a variant without the finally block
ReadErrorLeak ==
    /\ pc = "read"
    /\ Raise("read")
    /\ UNCHANGED <<impl, path, buffer, pending, cur, acc, last, lastFinal, yields, finals, acquired, released,
                   sawDone, badSeen, lastLine, maxIdx, seen, nLines>>
    /\ UNCHANGED feed
    /\ UNCHANGED <<consumer, call, other, tokens>>

\* reader.read() rejects: finally, and the error leaves the call
ReadError ==
    /\ pc = "read"
    /\ released' = TRUE
    /\ Raise("read")
    /\ UNCHANGED <<impl, path, buffer, pending, cur, acc, last, lastFinal, yields, finals, acquired,
                   sawDone, badSeen, lastLine, maxIdx, seen, nLines>>
    /\ UNCHANGED feed
    /\ UNCHANGED <<consumer, call, other, tokens>>

\* ------------------------------------------------------------------------
\* The non-streaming response
\* ------------------------------------------------------------------------
RECURSIVE AllParse(_)
AllParse(tcs) ==
    tcs = <<>> \/ (JSONParse(IF Head(tcs).arguments = <<>> THEN <<"{", "}">>
                             ELSE Head(tcs).arguments).ok /\ AllParse(Tail(tcs)))

WireCall(tc) ==
    [id |-> tc.id, name |-> tc.name,
     args |-> JSONParse(IF tc.arguments = <<>> THEN <<"{", "}">> ELSE tc.arguments).v]

\* ok is FALSE where reading the body throws: response.json() rejects,
\* choices[0] or its message is missing, or a tool call's arguments are not JSON
Decode(resp) ==
    IF resp.shape # "ok" \/ ~AllParse(resp.tool_calls)
        THEN [ok |-> FALSE, msg |-> Message(<<>>, <<>>, EmptyMeta)]
        ELSE [ok |-> TRUE,
              msg |-> Message(resp.content,
                              [i \in 1..Len(resp.tool_calls) |-> WireCall(resp.tool_calls[i])],
                              [id |-> resp.id, model |-> resp.model, usage |-> resp.usage])]

Deliver(d) ==
    IF d.ok
        THEN /\ result' = <<d.msg>>
             /\ outcome' = "message"
             /\ cause' = "response"
             /\ pc' = "done"
        ELSE Raise("body")

\* the response of a non-streaming request with a success status
SingleResponse(resp) ==
    /\ pc = "fetch"
    /\ path = "single"
    /\ Deliver(Decode(resp))
    /\ UNCHANGED <<impl, path, buffer, pending, cur, acc, last, lastFinal, yields, finals, acquired,
                   released, sawDone, badSeen, lastLine, maxIdx, seen, nLines>>
    /\ UNCHANGED feed
    /\ UNCHANGED <<consumer, call, other, tokens>>

\* ------------------------------------------------------------------------
\* Inputs
\* ------------------------------------------------------------------------
MaxLines == 4

MaxChunkLines == 2

Frag(index, id, name, arguments) ==
    [index |-> index, id |-> id, fn |-> name # "" \/ arguments # <<>>, name |-> name,
     arguments |-> arguments]

Ev(id, model, usage, content, frags) ==
    [choice |-> TRUE, delta |-> TRUE, id |-> id, model |-> model, usage |-> usage,
     content |-> content, tool_calls |-> frags]

\* {"a":1}
TextA == <<"{", "\"", "a", "\"", ":", "1", "}">>

\* {"a":
TextPart == SubSeq(TextA, 1, 5)

Events ==
    { Ev("r1", "", 0, <<"h">>, <<>>),
      Ev("", "m1", 0, <<>>, <<Frag(0, "c1", "", <<>>)>>),
      Ev("", "", 0, <<>>, <<Frag(0, "", "cu", <<>>)>>),
      Ev("", "", 0, <<>>, <<Frag(1, "", "", <<>>)>>),
      Ev("", "", 0, <<>>, <<Frag(1, "c2", "", <<>>), Frag(1, "", "cu", <<>>)>>),
      Ev("", "", 0, <<>>, <<Frag(0, "", "", TextA)>>),
      Ev("r2", "", 0, <<"i">>, <<Frag(0, "c1", "", TextPart), Frag(1, "c2", "cu", <<>>)>>),
      [NoEvent EXCEPT !.usage = 7],
      [NoEvent EXCEPT !.choice = TRUE, !.model = "m2"] }

DataLine(e) == <<DataTok, OpenTok(e), CloseTok, NL>>

\* lines as the server writes them: events, an event cut short, the sentinel
\* (with a carriage return), an empty line and a comment line
Lines ==
    {DataLine(e) : e \in Events}
        \cup { <<DataTok, OpenTok(Ev("r9", "", 0, <<"x">>, <<>>)), NL>>,
               <<DataTok, DoneTok, WsTok, NL>>,
               <<WsTok, NL>>,
               <<TxtTok, NL>> }

RECURSIVE Flatten(_)
Flatten(ls) == IF ls = <<>> THEN <<>> ELSE Head(ls) \o Flatten(Tail(ls))

\* a chunk of n whole lines
ChunksOf(n) == {Flatten(ls) : ls \in [1..n -> Lines]}

NoCall == [id |-> "", name |-> "", arguments |-> <<>>]

Resp(shape, content, calls) ==
    [shape |-> shape, id |-> "r1", model |-> "m1", usage |-> 7, content |-> content,
     tool_calls |-> calls]

WCall(id, arguments) == [id |-> id, name |-> "cu", arguments |-> arguments]

Responses ==
    { Resp("badjson", <<>>, <<>>),
      Resp("nochoices", <<>>, <<>>),
      Resp("ok", <<"h">>, <<>>),
      Resp("ok", <<>>, <<WCall("c1", TextA)>>),
      Resp("ok", <<"h">>, <<WCall("c1", <<>>)>>),
      Resp("ok", <<"h">>, <<WCall("c1", TextPart)>>),
      Resp("ok", <<"h">>, <<WCall("c1", TextA), WCall("c2", TextPart)>>) }

\* ------------------------------------------------------------------------
\* Specification
\* ------------------------------------------------------------------------
\* the call starts at the request: a key is configured and the messages were built
NoEntry ==
    /\ entry = "none"
    /\ apiKey = TRUE
    /\ zdr = FALSE
    /\ prompt = "none"
    /\ history = <<>>
    /\ optStream = "unset"
    /\ hasCallback = (impl = "model" /\ path = "stream")
    /\ pair = <<>>

\* nothing was read, yielded or returned yet
Fresh ==
    /\ buffer = <<>>
    /\ pending = <<>>
    /\ cur = <<>>
    /\ acc = EmptyAcc
    /\ last = <<>>
    /\ yields = 0
    /\ finals = 0
    /\ result = <<>>
    /\ outcome = "none"
    /\ cause = "none"
    /\ acquired = FALSE
    /\ released = FALSE
    /\ sawDone = FALSE
    /\ lastLine = "none"
    /\ maxIdx = -1
    /\ seen = <<>>
    /\ badSeen = FALSE
    /\ lastFinal = FALSE
    /\ nLines = 0
    /\ stage = "none"
    /\ argFrags = 0
    /\ anyAlone = FALSE
    /\ consumer = "active"
    /\ wire = <<>>
    /\ requests = 0
    /\ fetched = 0
    /\ tokens = <<>>

InitCall ==
    /\ pc = "fetch"
    /\ Fresh

Init ==
    /\ impl \in {"client", "model"}
    /\ path \in {"stream", "single"}
    /\ text = <<>>
    /\ unsent = <<>>
    /\ NoEntry
    /\ InitCall

\* the network delivers between one and MaxChunkLines whole lines
ReadChunk ==
    \E n \in 1..MaxChunkLines :
        /\ nLines + n <= MaxLines
        /\ \E chunk \in ChunksOf(n) : Read(chunk)
        /\ UNCHANGED feed

Respond == \E resp \in Responses : SingleResponse(resp)

Next ==
    \/ FetchReject
    \/ HttpError
    \/ NoBody
    \/ OpenStream
    \/ Respond
    \/ ReadChunk
    \/ ReadDone
    \/ ReadError
    \/ ProcessLine
    \/ Resume

Spec == Init /\ [][Next]_vars

\* ------------------------------------------------------------------------
\* One invocation streamed in fragments: the id and the name, then the
\* arguments text cut at arbitrary places, then the sentinel or the close
\* ------------------------------------------------------------------------
\* {"a":12}
TextNum == <<"{", "\"", "a", "\"", ":", "1", "2", "}">>

\* {"a":{"b":1}}
TextNested ==
    <<"{", "\"", "a", "\"", ":", "{", "\"", "b", "\"", ":", "1", "}", "}">>

\* {"a":{"ty":"s"}}
TextAction ==
    <<"{", "\"", "a", "\"", ":", "{", "\"", "t", "y", "\"", ":", "\"", "s", "\"", "}", "}">>

\* {"a":1,"b":2}
TextTwo ==
    <<"{", "\"", "a", "\"", ":", "1", ",", "\"", "b", "\"", ":", "2", "}">>

ArgTexts == {TextA, TextNum, TextNested, TextAction, TextTwo}

FragLine(f) == DataLine(Ev("r1", "", 0, <<>>, <<f>>))

ArgsInit ==
    /\ impl \in {"client", "model"}
    /\ path = "stream"
    /\ text \in ArgTexts
    /\ unsent = text
    /\ NoEntry
    /\ InitCall

\* {"id":"c1"}: no index, which counts as index 0
SendId ==
    /\ stage = "none"
    /\ Read(FragLine(Frag(0, "c1", "", <<>>)))
    /\ stage' = "id"
    /\ UNCHANGED <<text, unsent, argFrags, anyAlone>>

\* {"function":{"name":"computer_use"}}
SendName ==
    /\ stage = "id"
    /\ Read(FragLine(Frag(0, "", "cu", <<>>)))
    /\ stage' = "named"
    /\ UNCHANGED <<text, unsent, argFrags, anyAlone>>

\* id and name in one fragment
SendBoth ==
    /\ stage = "none"
    /\ Read(FragLine(Frag(0, "c1", "cu", <<>>)))
    /\ stage' = "both"
    /\ UNCHANGED <<text, unsent, argFrags, anyAlone>>

\* the next k characters of the arguments text
SendArgs ==
    /\ stage \in {"named", "both"}
    /\ \E k \in 1..Len(unsent) :
          /\ Read(FragLine(Frag(0, "", "", SubSeq(unsent, 1, k))))
          /\ unsent' = SubSeq(unsent, k + 1, Len(unsent))
          /\ anyAlone' = (anyAlone \/ JSONParse(SubSeq(unsent, 1, k)).ok)
    /\ argFrags' = argFrags + 1
    /\ UNCHANGED <<text, stage>>

\* data: [DONE]
SendDone ==
    /\ stage \in {"named", "both"}
    /\ unsent = <<>>
    /\ ~sawDone
    /\ Read(<<DataTok, DoneTok, NL>>)
    /\ UNCHANGED feed

\* the connection closes after the last fragment or after the sentinel
Close ==
    /\ unsent = <<>>
    /\ stage \in {"named", "both"}
    /\ ReadDone

ArgsNext ==
    \/ OpenStream
    \/ SendId
    \/ SendName
    \/ SendBoth
    \/ SendArgs
    \/ SendDone
    \/ Close
    \/ ProcessLine
    \/ Resume

SpecArgs == ArgsInit /\ [][ArgsNext]_vars

\* ------------------------------------------------------------------------
\* The consumer of streamChatCompletion stops
\* ------------------------------------------------------------------------
AtYield == pc \in {"yieldContent", "yieldTools", "yieldDone", "yieldEnd"}

\* the consumer leaves its for await loop: return() is called on the suspended
\* generator, which runs the finally block when the yield is inside try
ConsumerReturn ==
    /\ impl = "client"
    /\ consumer = "active"
    /\ AtYield
    /\ consumer' = "closed"
    /\ released' = TRUE
    /\ pc' = "closed"
    /\ outcome' = "stopped"
    /\ cause' = "return"
    /\ UNCHANGED <<impl, path, buffer, pending, cur, acc, last, lastFinal, yields, finals, result,
                   acquired, sawDone, badSeen, lastLine, maxIdx, seen, nLines>>
    /\ UNCHANGED <<feed, call, other, tokens>>

\* the consumer keeps the generator and never calls next() or return() again:
\* the generator stays suspended at its yield
ConsumerAbandon ==
    /\ impl = "client"
    /\ consumer = "active"
    /\ AtYield
    /\ consumer' = "gone"
    /\ UNCHANGED <<impl, path, pc, buffer, pending, cur, acc, last, lastFinal, yields, finals,
                   result, outcome, cause, acquired, released, sawDone, badSeen, lastLine,
                   maxIdx, seen, nLines>>
    /\ UNCHANGED <<feed, call, other, tokens>>

StopInit ==
    /\ impl = "client"
    /\ path = "stream"
    /\ text = <<>>
    /\ unsent = <<>>
    /\ NoEntry
    /\ InitCall

StopNext ==
    \/ FetchReject
    \/ HttpError
    \/ NoBody
    \/ OpenStream
    \/ ReadChunk
    \/ ReadDone
    \/ ReadError
    \/ ProcessLine
    \/ Resume
    \/ ConsumerReturn
    \/ ConsumerAbandon

SpecStop == StopInit /\ [][StopNext]_vars

\* ------------------------------------------------------------------------
\* Conversation messages, URL resolution and the wire format
\* A string is a sequence of pieces; the first piece of a URL is its scheme.
\* ------------------------------------------------------------------------
\* new URL(value) succeeds: the value has a scheme, which a data URI has too
IsUrl(value) == value # <<>> /\ value[1] \in {"https://", "data:image/"}

\* content.startsWith("data:image/")
StartsWithDataImage(content) == content # <<>> /\ content[1] = "data:image/"

\* Buffer.from(buffer).toString("base64"), byte by byte
Base64(b) == CASE b = "x" -> "eA" [] b = "y" -> "eQ" [] OTHER -> "AA"

Base64Decode(t) == CASE t = "eA" -> "x" [] t = "eQ" -> "y" [] OTHER -> "0"

\* response.arrayBuffer(): the bytes the server holds for the URL, or the
\* payload of a data URI
ResponseBytes(imageUrl) ==
    IF StartsWithDataImage(imageUrl)
        THEN [i \in 1..(Len(imageUrl) - 2) |-> Base64Decode(imageUrl[i + 2])]
        ELSE Tail(imageUrl)

EncodeBytes(bytes) == [i \in 1..Len(bytes) |-> Base64(bytes[i])]

ImageUrlToBase64(imageUrl) ==
    <<"data:image/", "png;base64,">> \o EncodeBytes(ResponseBytes(imageUrl))

\* a conversation message
Msg(type, content) ==
    [type |-> type, content |-> content, tool_calls |-> <<>>, tool_call_id |-> "", kw |-> ""]

AiMsg(content, calls) == [Msg("ai", content) EXCEPT !.tool_calls = calls]

\* kw is additional_kwargs.type
ToolMsg(content, kw) == [Msg("tool", content) EXCEPT !.tool_call_id = "c1", !.kw = kw]

\* isComputerCallToolMessage of @langchain/langgraph-cua: the test that
\* conditionallyUpdateToolMessageContent spells out
IsComputerCallToolMessage(m) == m.type = "tool" /\ m.kw = "computer_call_output"

\* the condition under which conditionallyUpdateToolMessageContent fetches
NeedsFetch(message) ==
    /\ message.type = "tool"
    /\ message.kw = "computer_call_output"
    /\ IsUrl(message.content)

ConditionallyUpdateToolMessageContent(message) ==
    IF NeedsFetch(message)
        THEN [message EXCEPT !.content = ImageUrlToBase64(message.content)]
        ELSE message

DigitChar(d) == IF d = 1 THEN "1" ELSE "2"

RECURSIVE DigitsOf(_)
DigitsOf(n) ==
    IF n < 10 THEN <<DigitChar(n)>> ELSE DigitsOf(n \div 10) \o <<DigitChar(n % 10)>>

RECURSIVE JSONStringify(_)
RECURSIVE StringifyMembers(_)
RECURSIVE StringifyFrom(_, _)
\* JSON.stringify(tc.args)
JSONStringify(v) ==
    CASE v.t = "num" -> DigitsOf(v.n)
      [] v.t = "str" -> <<"\"">> \o v.s \o <<"\"">>
      [] OTHER -> <<"{">> \o StringifyMembers(v.o) \o <<"}">>

StringifyMembers(ms) ==
    IF ms = {} THEN <<>> ELSE StringifyFrom(CHOOSE m \in ms : TRUE, ms)

StringifyFrom(m, ms) ==
    <<"\"">> \o m[1] \o <<"\"", ":">> \o JSONStringify(m[2])
        \o (IF ms = {m} THEN <<>> ELSE <<",">> \o StringifyMembers(ms \ {m}))

\* a message of the chat-completions request; image holds the url of the
\* image_url part when the content is a list of parts
Wire(role, content) ==
    [role |-> role, content |-> content, image |-> <<>>, has_calls |-> FALSE,
     tool_calls |-> <<>>, tool_call_id |-> ""]

ImageWire(url) == [Wire("user", <<>>) EXCEPT !.image = <<url>>]

WireToolCalls(tcs) ==
    [i \in 1..Len(tcs) |->
        [id |-> tcs[i].id, name |-> tcs[i].name, arguments |-> JSONStringify(tcs[i].args)]]

ConvertMessageToGrokFormat(message) ==
    CASE message.type = "system" -> Wire("system", message.content)
      [] message.type = "human" -> Wire("user", message.content)
      [] message.type = "ai" ->
            IF Len(message.tool_calls) > 0
                THEN [Wire("assistant", message.content) EXCEPT
                        !.has_calls = TRUE,
                        !.tool_calls = WireToolCalls(message.tool_calls)]
                ELSE Wire("assistant", message.content)
      [] message.type = "tool" ->
            IF StartsWithDataImage(message.content)
                THEN ImageWire(message.content)
                ELSE [Wire("tool", message.content) EXCEPT
                        !.tool_call_id = message.tool_call_id]
      [] OTHER -> Wire("user", message.content)

\* the mapping at the head of GrokChatModel._generate
GenerateMap(msg) ==
    CASE msg.type = "system" -> Wire("system", msg.content)
      [] msg.type = "human" -> Wire("user", msg.content)
      [] msg.type = "ai" -> Wire("assistant", msg.content)
      [] msg.type = "tool" ->
            IF StartsWithDataImage(msg.content)
                THEN ImageWire(msg.content)
                ELSE Wire("user", msg.content)
      [] OTHER -> Wire("user", msg.content)

\* the mapping of callModelStreamingCustom
StreamingMap(msg) ==
    CASE msg.type = "human" -> Wire("user", msg.content)
      [] msg.type = "ai" -> Wire("assistant", msg.content)
      [] msg.type = "system" -> Wire("system", msg.content)
      [] OTHER -> Wire("user", msg.content)

MapSeq(Op(_), ms) == [i \in 1..Len(ms) |-> Op(ms[i])]

PromptText == <<"p">>

\* callModelCustom: the system message of a configured prompt
CustomPrompt(p) ==
    CASE p = "string" -> <<Wire("system", PromptText)>>
      [] p = "message" -> <<ConvertMessageToGrokFormat(Msg("system", PromptText))>>
      [] OTHER -> <<>>

\* callModelStreamingCustom: messages.unshift({role: "system", content})
StreamingPrompt(p) == IF p = "none" THEN <<>> ELSE <<Wire("system", PromptText)>>

LastOf(h) == h[Len(h)]

\* isLastMessageComputerCallOutput && !configuration.zdrEnabled
OnlyLast(h, z) == IsComputerCallToolMessage(LastOf(h)) /\ ~z

\* the messages callModelCustom formats
Selected(h, z) == IF OnlyLast(h, z) THEN <<LastOf(h)>> ELSE h

Formatted(h, z) == MapSeq(ConditionallyUpdateToolMessageContent, Selected(h, z))

CustomWire(h, z, p) ==
    IF OnlyLast(h, z)
        THEN MapSeq(ConvertMessageToGrokFormat, Formatted(h, z))
        ELSE CustomPrompt(p) \o MapSeq(ConvertMessageToGrokFormat, Formatted(h, z))

StreamingWire(h, p) == StreamingPrompt(p) \o MapSeq(StreamingMap, h)

GenerateWire(h) == MapSeq(GenerateMap, h)

NumFetches(ms) == Cardinality({i \in 1..Len(ms) : NeedsFetch(ms[i])})

\* the scripted message GrokChatModel returns when no key is configured
DemoMessage ==
    Message(<<"Demo Mode">>,
            <<[id |-> "demo_screenshot", name |-> "computer_use_preview",
               args |-> ScreenshotArgs]>>,
            [id |-> "demo_response", model |-> "grok-2-vision-1212", usage |-> 250])

\* ------------------------------------------------------------------------
\* The entry points, up to the chat-completions request
\* ------------------------------------------------------------------------
stream ==
    <<buffer, pending, cur, acc, last, lastFinal, yields, finals, acquired, released, sawDone,
      badSeen, lastLine, maxIdx, seen, nLines>>

\* an error that leaves the entry point
Fail(why) ==
    /\ outcome' = "error"
    /\ cause' = why
    /\ result' = <<>>
    /\ pc' = "error"
    /\ UNCHANGED <<wire, requests>>

\* fetch(`${baseURL}/chat/completions`) with the messages ms
Send(ms) ==
    /\ wire' = ms
    /\ requests' = requests + 1
    /\ pc' = "fetch"
    /\ UNCHANGED <<outcome, cause, result>>

\* callModelCustom up to the formatting of the messages: the fetches of the
\* tool-result URLs are started, or the request is sent when there are none
EnterCustom ==
    /\ pc = "entry"
    /\ entry = "custom"
    /\ IF ~apiKey
          THEN Fail("nokey") /\ UNCHANGED fetched
          ELSE IF NumFetches(Selected(history, zdr)) > 0
              THEN /\ fetched' = NumFetches(Selected(history, zdr))
                   /\ pc' = "resolve"
                   /\ UNCHANGED <<outcome, cause, result, wire, requests>>
              ELSE Send(CustomWire(history, zdr, prompt)) /\ UNCHANGED fetched
    /\ UNCHANGED <<impl, path, stream, feed, consumer, other, tokens, entry, apiKey, zdr,
                   prompt, history>>

\* every fetch of a tool-result URL gave a response
ResolveDone ==
    /\ pc = "resolve"
    /\ Send(CustomWire(history, zdr, prompt))
    /\ UNCHANGED <<impl, path, stream, feed, consumer, other, tokens, entry, apiKey, zdr,
                   prompt, history,
                   fetched>>

\* a variant that answers a rejected fetch with the scripted message
ResolveFailFallback ==
    /\ pc = "resolve"
    /\ outcome' = "fallback"
    /\ cause' = "resolve"
    /\ result' = <<Fallback(impl)>>
    /\ pc' = "done"
    /\ UNCHANGED <<wire, requests>>
    /\ UNCHANGED <<impl, path, stream, feed, consumer, other, tokens, entry, apiKey, zdr,
                   prompt, history,
                   fetched>>

\* a fetch of a tool-result URL rejects: the rejection leaves callModelCustom
ResolveFail ==
    /\ pc = "resolve"
    /\ Fail("resolve")
    /\ UNCHANGED <<impl, path, stream, feed, consumer, other, tokens, entry, apiKey, zdr,
                   prompt, history,
                   fetched>>

\* callModelStreamingCustom up to the request of streamChatCompletion
EnterStreaming ==
    /\ pc = "entry"
    /\ entry = "streaming"
    /\ IF ~apiKey THEN Fail("nokey") ELSE Send(StreamingWire(history, prompt))
    /\ UNCHANGED <<impl, path, stream, feed, consumer, other, tokens, entry, apiKey, zdr,
                   prompt, history,
                   fetched>>

\* a variant that streams whenever a callback is registered
UseStreamingAnyOption(option, callback) == callback

\* const useStreaming = options.stream !== false && runManager?.onLLMNewToken
UseStreaming(option, callback) == option # "false" /\ callback

\* GrokChatModel._generate of the first variant up to its request: without a
\* key it returns the demo message; with one it sends the streaming request
\* of _streamGenerate or the non-streaming request
EnterGenerate ==
    /\ pc = "entry"
    /\ entry = "generate"
    /\ IF ~apiKey
          THEN /\ result' = <<DemoMessage>>
               /\ outcome' = "message"
               /\ cause' = "demo"
               /\ pc' = "done"
               /\ UNCHANGED <<path, wire, requests>>
          ELSE /\ path' = IF UseStreaming(optStream, hasCallback) THEN "stream" ELSE "single"
               /\ Send(GenerateWire(history))
    /\ UNCHANGED <<impl, stream, feed, consumer, other, tokens, entry, apiKey, zdr, prompt,
                   history, fetched>>

\* the second variant: its constructor throws without a key
EnterGenerate2 ==
    /\ pc = "entry"
    /\ entry = "generate2"
    /\ IF ~apiKey THEN Fail("nokey") ELSE Send(GenerateWire(history))
    /\ UNCHANGED <<impl, path, stream, feed, consumer, other, tokens, entry, apiKey, zdr,
                   prompt, history,
                   fetched>>

MaxHistory == 2

Call1 == [id |-> "c1", name |-> "cu", args |-> JSONParse(TextAction).v]

Call2 == [id |-> "c2", name |-> "cu", args |-> JSONParse(TextTwo).v]

Url == <<"https://", "x">>

DataUri == <<"data:image/", "png;base64,", "eQ">>

JpegUri == <<"data:image/", "jpeg;base64,", "eQ">>

Messages ==
    { Msg("system", <<"t">>),
      Msg("human", <<"t">>),
      AiMsg(<<"t">>, <<>>),
      AiMsg(<<>>, <<Call1, Call2>>),
      ToolMsg(Url, "computer_call_output"),
      ToolMsg(Url, "other"),
      ToolMsg(DataUri, "computer_call_output"),
      ToolMsg(JpegUri, "computer_call_output"),
      ToolMsg(<<"t">>, "computer_call_output") }

Histories == UNION {[1..n -> Messages] : n \in 1..MaxHistory}

CallInit ==
    /\ entry \in {"custom", "streaming", "generate", "generate2"}
    /\ impl = IF entry \in {"custom", "streaming"} THEN "client" ELSE "model"
    /\ path = IF entry = "streaming" THEN "stream" ELSE "single"
    /\ optStream \in {"unset", "true", "false"}
    /\ hasCallback \in BOOLEAN
    /\ entry \in {"custom", "streaming"} => (optStream = "unset" /\ ~hasCallback)
    /\ pair = <<>>
    /\ apiKey \in BOOLEAN
    /\ zdr \in BOOLEAN
    /\ entry # "custom" => ~zdr
    /\ prompt \in {"none", "string", "message"}
    /\ entry \in {"generate", "generate2"} => prompt = "none"
    /\ history \in Histories
    /\ text = <<>>
    /\ unsent = <<>>
    /\ pc = "entry"
    /\ Fresh

\* the entry points and the non-streaming answer; the stream of a streaming
\* request is followed in Spec
CallNext ==
    \/ EnterCustom
    \/ ResolveDone
    \/ ResolveFail
    \/ EnterStreaming
    \/ EnterGenerate
    \/ EnterGenerate2
    \/ FetchReject
    \/ HttpError
    \/ Respond

SpecCall == CallInit /\ [][CallNext]_vars

\* ------------------------------------------------------------------------
\* One byte stream cut into chunks at arbitrary places
\* ------------------------------------------------------------------------
DoneLine == <<DataTok, DoneTok, NL>>

\* what the server writes: content, the sentinel and a line after it; two
\* fragments of one invocation and the sentinel; a last line with no newline;
\* two invocations, the second one first
Streams ==
    { DataLine(Ev("r1", "", 0, <<"h">>, <<>>)) \o DoneLine
          \o DataLine(Ev("r2", "", 0, <<"i">>, <<>>)),
      DataLine(Ev("r1", "", 0, <<"h">>, <<Frag(0, "c1", "", <<>>)>>))
          \o DataLine(Ev("", "", 0, <<>>, <<Frag(0, "", "cu", TextA)>>)) \o DoneLine,
      DataLine(Ev("r1", "", 0, <<"h">>, <<>>))
          \o <<DataTok, OpenTok(Ev("r2", "", 0, <<"i">>, <<>>)), CloseTok>>,
      DataLine(Ev("r1", "", 0, <<>>, <<Frag(1, "c2", "", <<>>)>>))
          \o DataLine(Ev("", "", 0, <<>>, <<Frag(0, "c1", "cu", TextA),
                                            Frag(1, "", "cu", TextPart)>>)) }

ChunkInit ==
    /\ impl \in {"client", "model"}
    /\ path = "stream"
    /\ text \in Streams
    /\ unsent = text
    /\ NoEntry
    /\ InitCall

\* reader.read() gives the next bytes of the stream, however many
SendChunk ==
    /\ unsent # <<>>
    /\ \E k \in 1..Len(unsent) :
          /\ Read(SubSeq(unsent, 1, k))
          /\ unsent' = SubSeq(unsent, k + 1, Len(unsent))
    /\ UNCHANGED <<text, stage, argFrags, anyAlone>>

\* the connection closes once the server has written everything
ChunkClose ==
    /\ unsent = <<>>
    /\ ReadDone

ChunkNext ==
    \/ OpenStream
    \/ SendChunk
    \/ ChunkClose
    \/ ProcessLine
    \/ Resume

SpecChunks == ChunkInit /\ [][ChunkNext]_vars

\* ------------------------------------------------------------------------
\* _streamGenerate with a token callback that may fail
\* ------------------------------------------------------------------------
\* await runManager.onLLMNewToken(delta.content) rejects: the catch block of
\* the line takes the error, and the loop goes on to the next line
CallbackThrows ==
    /\ pc = "lines"
    /\ pending # <<>>
    /\ impl = "model"
    /\ hasCallback
    /\ LineKind(Head(pending)) = "event"
    /\ EventHead(acc, LineEvent(Head(pending))).content
    /\ acc' = EventHead(acc, LineEvent(Head(pending))).acc
    /\ tokens' = Append(tokens, LineEvent(Head(pending)).content)
    /\ lastLine' = "event"
    /\ Advance(Tail(pending))
    /\ UNCHANGED <<cur, last, lastFinal, yields, finals, sawDone, badSeen, maxIdx, seen>>
    /\ UNCHANGED <<impl, path, buffer, result, outcome, cause, acquired, released, nLines>>
    /\ UNCHANGED feed
    /\ UNCHANGED <<consumer, call, other>>

TokensInit ==
    /\ impl = "model"
    /\ path = "stream"
    /\ text = <<>>
    /\ unsent = <<>>
    /\ NoEntry
    /\ InitCall

TokensNext ==
    \/ OpenStream
    \/ ReadChunk
    \/ ReadDone
    \/ ProcessLine
    \/ CallbackThrows

SpecTokens == TokensInit /\ [][TokensNext]_vars

\* ------------------------------------------------------------------------
\* Two streaming calls whose reads interleave
\* ------------------------------------------------------------------------
\* the snapshots the client yields while it processes event e from a
ContentShot(h) == IF h.content THEN <<Snapshot(h.acc)>> ELSE <<>>

ToolsShot(r, fs) == IF fs # <<>> /\ ~r.threw THEN <<Snapshot(r.acc)>> ELSE <<>>

EventShots(im, h) ==
    IF im = "client"
        THEN ContentShot(h) \o ToolsShot(EventTools(im, h.acc, h.fragments), h.fragments)
        ELSE <<>>

\* the accumulator after event e
EventAcc(im, h) == EventTools(im, h.acc, h.fragments).acc

StreamFinal(im, a) == IF im = "client" THEN ClientFinal(a) ELSE ModelFinal(a)

\* a call not yet made
IdleCall == [st |-> "idle", acc |-> EmptyAcc, got |-> <<>>, shots |-> <<>>, out |-> <<>>,
             mixed |-> FALSE]

\* a variant whose accumulators live outside the function: a call starts
\* with what the other call has accumulated
PairOpenShared(k) ==
    /\ pair[k].st = "idle"
    /\ pair' = [pair EXCEPT ![k] = [@ EXCEPT !.st = "open", !.acc = pair[3 - k].acc]]
    /\ UNCHANGED <<impl, path, pc, stream, result, outcome, cause, feed, consumer, call,
                   tokens, optStream, hasCallback>>

\* let accumulatedContent = ""; let accumulatedToolCalls = []; let
\* responseMetadata = {}: the locals of call k
PairOpen(k) ==
    /\ pair[k].st = "idle"
    /\ pair' = [pair EXCEPT ![k] = [@ EXCEPT !.st = "open", !.acc = EmptyAcc]]
    /\ UNCHANGED <<impl, path, pc, stream, result, outcome, cause, feed, consumer, call,
                   tokens, optStream, hasCallback>>

Busy(c) == c.st = "open" /\ c.got # <<>>

\* call k reads a chunk holding the data line of event e and processes it
PairStep(k, e) ==
    pair' = [pair EXCEPT ![k] =
                [@ EXCEPT !.acc = EventAcc(impl, EventHead(@, e)),
                          !.shots = @ \o EventShots(impl, EventHead(pair[k].acc, e)),
                          !.got = Append(@, e),
                          !.mixed = @ \/ Busy(pair[3 - k])]]

MaxPairEvents == 2

PairEvents ==
    { Ev("r1", "m1", 0, <<"h">>, <<>>),
      Ev("r2", "", 0, <<"i">>, <<Frag(0, "c1", "cu", TextA)>>),
      Ev("", "", 7, <<>>, <<Frag(1, "c2", "", TextPart)>>) }

PairRead(k) ==
    /\ pair[k].st = "open"
    /\ Len(pair[k].got) < MaxPairEvents
    /\ \E e \in PairEvents : PairStep(k, e)
    /\ UNCHANGED <<impl, path, pc, stream, result, outcome, cause, feed, consumer, call,
                   tokens, optStream, hasCallback>>

\* reader.read() of call k gives done: its final message
PairClose(k) ==
    /\ pair[k].st = "open"
    /\ pair' = [pair EXCEPT ![k] =
                   [@ EXCEPT !.st = "done", !.out = <<StreamFinal(impl, pair[k].acc)>>,
                             !.shots = IF impl = "client"
                                          THEN Append(@, StreamFinal(impl, pair[k].acc))
                                          ELSE @]]
    /\ UNCHANGED <<impl, path, pc, stream, result, outcome, cause, feed, consumer, call,
                   tokens, optStream, hasCallback>>

PairInit ==
    /\ impl \in {"client", "model"}
    /\ path = "stream"
    /\ text = <<>>
    /\ unsent = <<>>
    /\ entry = "none"
    /\ apiKey = TRUE
    /\ zdr = FALSE
    /\ prompt = "none"
    /\ history = <<>>
    /\ optStream = "unset"
    /\ hasCallback = FALSE
    /\ pc = "read"
    /\ Fresh
    /\ pair = [k \in 1..2 |-> IdleCall]

PairOpens == \E k \in 1..2 : PairOpen(k)

PairReads == \E k \in 1..2 : PairRead(k)

PairCloses == \E k \in 1..2 : PairClose(k)

PairNext ==
    \/ PairOpens
    \/ PairReads
    \/ PairCloses

SpecPair == PairInit /\ [][PairNext]_vars

\* ------------------------------------------------------------------------
\* Properties
\* ------------------------------------------------------------------------
StreamEnded == path = "stream" /\ pc = "done" /\ outcome = "message"

\* the last message yielded by the client, the message returned by the model
FinalMessage == IF impl = "client" THEN last[1] ELSE result[1]

\* the args of an invocation whose arguments text came as one fragment
OneFragmentArgs(A) == ModelArgs(EmptyCall, Frag(0, "", "", A)).tc.args

\* C1: split-invariance of _streamGenerate: however the arguments text of the
\* one invocation is cut into fragments, the final message holds that
\* invocation with the args that the text gives as a single fragment.
C1_SplitInvariance ==
    (impl = "model" /\ StreamEnded /\ unsent = <<>>) =>
        /\ Len(result[1].tool_calls) = 1
        /\ result[1].tool_calls[1].args = OneFragmentArgs(text)

\* C2: the client is sent the id, then the name, then the arguments text in
\* two fragments neither of which is JSON alone, then [DONE]; the last message
\* yielded has exactly one invocation, with that id, that name and the parsed
\* arguments.
C2_ClientScenario ==
    (impl = "client" /\ StreamEnded /\ cause = "sentinel" /\ stage = "named"
        /\ argFrags = 2 /\ ~anyAlone) =>
        last[1].tool_calls = <<[id |-> "c1", name |-> "cu", args |-> JSONParse(text).v]>>

\* C3: the final message of a streaming call holds no invocation with an
\* empty id or an empty name.
C3_FinalHasNoPartial ==
    StreamEnded =>
        \A i \in 1..Len(FinalMessage.tool_calls) :
            FinalMessage.tool_calls[i].id # "" /\ FinalMessage.tool_calls[i].name # ""

C4_Correlated ==
    /\ Len(acc.toolCalls) = maxIdx + 1
    /\ Len(seen) = Len(acc.toolCalls)
    /\ \A i \in 1..Len(seen) :
          acc.toolCalls[i].id = seen[i].id /\ acc.toolCalls[i].name = seen[i].name

\* C4: fragments are correlated by index: the list is as long as the largest
\* index processed plus one, it never gets shorter, and entry i carries the
\* last non-empty id and name of the fragments with index i.
C4_IndexCorrelation ==
    /\ []C4_Correlated
    /\ [][Len(acc'.toolCalls) >= Len(acc.toolCalls)]_vars

\* an index-only fragment for index 1, then fragments with its id and its name
C4_Witness ==
    /\ Len(acc.toolCalls) = 2
    /\ seen[2].bare
    /\ seen[2].n >= 3
    /\ acc.toolCalls[2].id = "c2"
    /\ acc.toolCalls[2].name = "cu"

\* C5: a data line that is not JSON changes nothing and the loop goes on to
\* the next line; an event line processed after it has its content appended.
C5_BadLineSkipped ==
    [][/\ (pc = "lines" /\ LineKind(Head(pending)) = "bad") =>
            /\ acc' = acc
            /\ last' = last
            /\ result' = result
            /\ outcome' = outcome
            /\ pending' = Tail(pending)
            /\ pc' = IF Tail(pending) = <<>> THEN "read" ELSE "lines"
       /\ (pc = "lines" /\ badSeen /\ LineKind(Head(pending)) = "event"
              /\ LineEvent(Head(pending)).choice /\ LineEvent(Head(pending)).delta) =>
            acc'.content = acc.content \o LineEvent(Head(pending)).content]_vars

\* two lines were received: the malformed one, then the event with content "h"
C5_Witness ==
    /\ nLines = 2
    /\ badSeen
    /\ lastLine = "event"
    /\ acc.content = <<"h">>

\* C6: the non-streaming call never ends in an error: after a network error,
\* an error status or an unreadable body it returns the scripted message,
\* whose only invocation asks for a screenshot.
C6_SingleNeverFails ==
    (path = "single" /\ pc \in {"done", "error"}) =>
        /\ outcome \in {"message", "fallback"}
        /\ cause \in {"network", "status", "body"} =>
              /\ outcome = "fallback"
              /\ result = <<Fallback(impl)>>
              /\ Len(result[1].tool_calls) = 1
              /\ result[1].tool_calls[1].args = ScreenshotArgs

C6_Witness == path = "single" /\ cause = "status" /\ outcome = "fallback"

\* C7: on the streaming path an error status, a missing body and a read error
\* reach the caller as an error, never as the scripted message.
C7_StreamErrorsSurface ==
    (path = "stream" /\ cause \in {"network", "status", "nobody", "read"}) =>
        /\ outcome = "error"
        /\ pc = "error"
        /\ result = <<>>

C7_Witness ==
    impl = "model" /\ path = "stream" /\ cause = "read" /\ nLines > 0 /\ outcome = "error"

\* C8: the client yields the final snapshot exactly once, as its last element,
\* at the sentinel and at the close alike, and the sequence then ends.
C8_OneFinalLast ==
    /\ [](((impl = "client" /\ path = "stream" /\ pc \in {"yieldDone", "yieldEnd", "done"})
             => (finals = 1 /\ lastFinal /\ last = <<ClientFinal(acc)>>)))
    /\ [][(pc \in {"yieldDone", "yieldEnd"}) => (pc' = "done" /\ yields' = yields)]_vars

\* the connection closed without a sentinel after a content snapshot
C8_Witness ==
    impl = "client" /\ pc = "done" /\ cause = "close" /\ yields = 2 /\ finals = 1

\* C9: once a [DONE] line was processed, nothing more is read and the
\* accumulator no longer changes.
C9_DoneEndsProcessing == [][sawDone => (acc' = acc /\ nLines' = nLines)]_vars

\* C10: a call that acquired the reader and ended has released it.
C10_ReaderReleased == (pc \in {"done", "error"} /\ acquired) => released

C10_Witness == pc = "error" /\ cause = "read" /\ acquired /\ released

\* C11: once the consumer has stopped consuming, by closing the generator or
\* by never asking for another element, no further line is read and the
\* reader has been released.
C11_StopReleases ==
    /\ [](consumer # "active" => released)
    /\ [][consumer # "active" => nLines' = nLines]_vars

BareUrl(content) == IsUrl(content) /\ ~StartsWithDataImage(content)

\* C12: no message of the request carries a bare URL; in the histories only
\* tool results have URL content, so this is the claim that every tool result
\* with a URL and not a data URI goes out as a data URI.
C12_NoBareUrlOnWire ==
    requests > 0 =>
        \A i \in 1..Len(wire) :
            /\ ~BareUrl(wire[i].content)
            /\ wire[i].image # <<>> => ~BareUrl(wire[i].image[1])

\* C13: when a fetch of a tool-result URL rejects in callModelCustom, the call
\* ends with an error, no request was or will be sent and nothing is returned.
C13_ResolveFailureIsFatal ==
    /\ [](cause = "resolve" =>
            /\ entry = "custom"
            /\ pc = "error"
            /\ outcome = "error"
            /\ result = <<>>
            /\ requests = 0
            /\ wire = <<>>)
    /\ [][cause # "resolve"]_vars

C13_Witness == cause = "resolve" /\ fetched > 0 /\ outcome = "error" /\ pc = "error"

\* C14: callModelCustom sends only the translation of the resolved last
\* message when the last message is a tool result and zdrEnabled is off, and
\* otherwise the prompt's system message, if any, before the translation of
\* every message of the history.
C14_Selection ==
    (entry = "custom" /\ requests > 0) =>
        wire = IF LastOf(history).type = "tool" /\ ~zdr
                  THEN <<ConvertMessageToGrokFormat(
                            ConditionallyUpdateToolMessageContent(LastOf(history)))>>
                  ELSE CustomPrompt(prompt)
                          \o MapSeq(ConvertMessageToGrokFormat,
                                    MapSeq(ConditionallyUpdateToolMessageContent, history))

\* the messages an entry point translates, and the wire message of the i-th
SentMessages == IF entry = "custom" THEN Formatted(history, zdr) ELSE history

WireFor(i) == wire[Len(wire) - Len(SentMessages) + i]

ToolResultOnWire(m) ==
    IF StartsWithDataImage(m.content)
        THEN [role |-> "user", content |-> <<>>, image |-> <<m.content>>, has_calls |-> FALSE,
              tool_calls |-> <<>>, tool_call_id |-> ""]
        ELSE [role |-> "tool", content |-> m.content, image |-> <<>>, has_calls |-> FALSE,
              tool_calls |-> <<>>, tool_call_id |-> m.tool_call_id]

\* C15: every translator maps a tool result with an image data URI to a user
\* message with one image part, and any other tool result to a message of
\* role "tool" with the tool_call_id and the content.
C15_ToolResultTranslation ==
    requests > 0 =>
        \A i \in 1..Len(SentMessages) :
            SentMessages[i].type = "tool" => WireFor(i) = ToolResultOnWire(SentMessages[i])

ParsesTo(arguments, args) == JSONParse(arguments).ok /\ JSONParse(arguments).v = args

AssistantOnWire(m, w) ==
    /\ w.role = "assistant"
    /\ w.has_calls = (Len(m.tool_calls) >= 1)
    /\ Len(w.tool_calls) = Len(m.tool_calls)
    /\ \A j \in 1..Len(m.tool_calls) :
          /\ j <= Len(w.tool_calls)
          /\ w.tool_calls[j].id = m.tool_calls[j].id
          /\ w.tool_calls[j].name = m.tool_calls[j].name
          /\ ParsesTo(w.tool_calls[j].arguments, m.tool_calls[j].args)

\* C16: every translator maps an assistant message with n >= 1 invocations
\* to an assistant wire message with n tool_calls in order, each with the id,
\* the name and an arguments string that parses back to the args; without
\* invocations there is no tool_calls field.
C16_AssistantTranslation ==
    requests > 0 =>
        \A i \in 1..Len(SentMessages) :
            SentMessages[i].type = "ai" => AssistantOnWire(SentMessages[i], WireFor(i))

ArgsOrEmpty(p) == IF p.ok THEN p.v ELSE EmptyObj

KeptCall(tc) ==
    [id |-> tc.id, name |-> tc.name,
     args |-> ArgsOrEmpty(JSONParse(IF tc.arguments = <<>> THEN <<"{", "}">>
                                    ELSE tc.arguments))]

ResponseKept(r) ==
    result' = <<Message(r.content, MapSeq(KeptCall, r.tool_calls),
                        [id |-> r.id, model |-> r.model, usage |-> r.usage])>>

\* C17: a non-streaming response with a first choice is returned with its
\* content and all of its tool calls; a tool call whose arguments are not
\* JSON gets the empty object as args.
C17_BadArgumentsKept ==
    [][\A r \in Responses : (SingleResponse(r) /\ r.shape = "ok") => ResponseKept(r)]_vars

\* C18: every message the client returns and every snapshot it yields is an
\* assistant message.
C18_AssistantRole ==
    impl = "client" =>
        /\ \A i \in 1..Len(result) : result[i].type = "ai"
        /\ \A i \in 1..Len(last) : last[i].type = "ai"

C18_Witness ==
    /\ impl = "client"
    /\ path = "single"
    /\ cause = "network"
    /\ outcome = "fallback"
    /\ result[1].type = "ai"

\* C19: without an API key every entry point ends with an error, having made
\* no network request and returning no message.
C19_NoKeyFails ==
    (~apiKey /\ pc # "entry") =>
        /\ outcome = "error"
        /\ result = <<>>
        /\ requests = 0
        /\ fetched = 0

\* C20: a call of callModelCustom that ended returned a message, and after a
\* missing key, a failed URL fetch, a transport failure, an error status or a
\* malformed body that message is the scripted one.
C20_AlwaysAMessage ==
    (entry = "custom" /\ pc \in {"done", "error"}) =>
        /\ outcome \in {"message", "fallback"}
        /\ cause \in {"nokey", "resolve", "network", "status", "body"} =>
              result = <<Fallback(impl)>>

\* an invocation that has an id and a name and whose accumulated arguments
\* text is not valid JSON
Unresolved(tc) ==
    /\ tc.id # "" /\ tc.name # ""
    /\ tc.argsString # <<>>
    /\ ~JSONParse(tc.argsString).ok

\* C21: in _streamGenerate, an invocation with an id and a name whose
\* accumulated arguments text is not valid JSON when the stream ends is
\* absent from the final message.
C21_UnresolvedDropped ==
    (impl = "model" /\ StreamEnded) =>
        \A i \in 1..Len(acc.toolCalls) :
            Unresolved(acc.toolCalls[i]) =>
                \A j \in 1..Len(result[1].tool_calls) :
                    result[1].tool_calls[j].id # acc.toolCalls[i].id

\* C22: streamChatCompletion yields a snapshot after every event that changes
\* the accumulator: whenever a step changes the content or the list of
\* invocations, that step yields one snapshot, also when the fragment that
\* set an id or a name carried arguments text that is not yet complete JSON.
C22_SnapshotPerChange ==
    [][(impl = "client" /\ pc \in {"lines", "yieldContent"}
            /\ (acc'.content # acc.content \/ acc'.toolCalls # acc.toolCalls))
        => yields' = yields + 1]_vars

\* the accumulator after one line
LineAcc(im, a, line) ==
    IF LineKind(line) = "event"
        THEN EventTools(im, EventHead(a, LineEvent(line)).acc,
                        EventHead(a, LineEvent(line)).fragments).acc
        ELSE a

\* the accumulator after the lines up to the first sentinel
RECURSIVE RunLines(_, _, _)
RunLines(im, a, lines) ==
    IF lines = <<>> \/ LineKind(Head(lines)) = "done" THEN a
    ELSE RunLines(im, LineAcc(im, a, Head(lines)), Tail(lines))

\* the final message when the whole stream t arrives as a single chunk
WholeMessage(im, t) ==
    IF im = "client"
        THEN ClientFinal(RunLines(im, EmptyAcc, SubSeq(Split(t), 1, Len(Split(t)) - 1)))
        ELSE ModelFinal(RunLines(im, EmptyAcc, SubSeq(Split(t), 1, Len(Split(t)) - 1)))

\* C23: chunk-partition invariance: however the byte stream is cut into
\* chunks (inside a data line, or with the lines after [DONE] in the same
\* chunk or a later one), the final message of either assembler is the one
\* the stream gives as a single chunk.
C23_PartitionInvariance ==
    (StreamEnded /\ unsent = <<>>) => FinalMessage = WholeMessage(impl, text)


\* the fragments of the events, and one whose index leaves a gap
FrameFragments ==
    UNION {{e.tool_calls[k] : k \in 1..Len(e.tool_calls)} : e \in Events}
        \cup {Frag(3, "c3", "", <<>>)}

EntryOr(tcs, j) == IF j <= Len(tcs) THEN tcs[j] ELSE EmptyCall

\* r is tcs with nothing but entry f.index changed, grown with empty entries
\* where needed, and with that entry's id and name replaced only by
\* non-empty ones
Framed(tcs, f, r) ==
    /\ Len(r) = Max(Len(tcs), f.index + 1)
    /\ \A j \in 1..Len(r) : j # f.index + 1 => r[j] = EntryOr(tcs, j)
    /\ r[f.index + 1].id = (IF f.id # "" THEN f.id ELSE EntryOr(tcs, f.index + 1).id)
    /\ r[f.index + 1].name =
          (IF f.name # "" THEN f.name ELSE EntryOr(tcs, f.index + 1).name)

\* C24: in both assemblers a fragment with index i changes entry i only
\* (appending empty entries up to i when the list is shorter): the other
\* entries are unchanged, an empty id or name leaves the stored one and a
\* non-empty one replaces it; the fragments of an event leave the content
\* and the metadata unchanged.
C24_FragmentFrame ==
    /\ [](\A f \in FrameFragments :
            Framed(acc.toolCalls, f, ApplyFragment(impl, acc.toolCalls, f).tcs))
    /\ [](\A e \in Events :
            /\ EventTools(impl, acc, e.tool_calls).acc.content = acc.content
            /\ EventTools(impl, acc, e.tool_calls).acc.meta = acc.meta)
    /\ [][pc = "yieldContent" => acc'.content = acc.content]_vars

\* two invocations with their ids and names were assembled, the second one
\* begun before the first
C24_Witness ==
    /\ pc = "done"
    /\ Len(acc.toolCalls) = 2
    /\ acc.toolCalls[1].id = "c1" /\ acc.toolCalls[1].name = "cu"
    /\ acc.toolCalls[2].id = "c2" /\ acc.toolCalls[2].name = "cu"


\* the line being processed is an event
AtEvent == pc = "lines" /\ pending # <<>> /\ LineKind(Head(pending)) = "event"

\* the invocations after the fragments of event e were applied
WithFragments(a, e) ==
    EventTools(impl, EventHead(a, e).acc, EventHead(a, e).fragments).acc.toolCalls

\* C25: in _streamGenerate the token callback is called once for each event
\* with a non-empty content delta, in order and with that delta, so that the
\* callback's arguments concatenated are the content; and a failure inside
\* the callback does not lose the tool-call fragments of the same event.
C25_TokenCallback ==
    /\ [](Flatten(tokens) = acc.content)
    /\ [][AtEvent =>
            tokens' = IF LineEvent(Head(pending)).choice /\ LineEvent(Head(pending)).delta
                            /\ LineEvent(Head(pending)).content # <<>>
                        THEN Append(tokens, LineEvent(Head(pending)).content)
                        ELSE tokens]_vars
    /\ [][AtEvent => acc'.toolCalls = WithFragments(acc, LineEvent(Head(pending)))]_vars


\* C26: GrokChatModel._generate (first variant) with a key configured sends
\* the streaming request exactly when a token callback is registered and
\* options.stream is not false; in every other case it sends one
\* non-streaming request; either way it sends exactly one request.
C26_StreamingChoice ==
    (entry = "generate" /\ apiKey /\ pc # "entry") =>
        /\ requests = 1
        /\ path = "stream" <=> (hasCallback /\ optStream # "false")

\* a callback is registered, options.stream is false, and the non-streaming
\* request was answered
C26_Witness ==
    /\ entry = "generate" /\ apiKey
    /\ hasCallback /\ optStream = "false"
    /\ path = "single" /\ requests = 1
    /\ pc = "done" /\ outcome = "message"


\* C27: in both assemblers the metadata holds, for each of id, model and
\* usage, the value of the last parsed event that carried it: every parsed
\* event stores the fields it carries, an event with usage and an empty
\* choices list included.
C27_MetadataLastWins ==
    [][AtEvent => acc'.meta = UpdateMeta(acc.meta, LineEvent(Head(pending)))]_vars


\* the accumulator of a call that alone received the events es
RECURSIVE AloneAcc(_, _, _)
AloneAcc(im, a, es) ==
    IF es = <<>> THEN a ELSE AloneAcc(im, EventAcc(im, EventHead(a, Head(es))), Tail(es))

\* the snapshots of a client that alone received the events es
RECURSIVE AloneShots(_, _, _)
AloneShots(im, a, es) ==
    IF es = <<>> THEN <<>>
    ELSE EventShots(im, EventHead(a, Head(es)))
            \o AloneShots(im, EventAcc(im, EventHead(a, Head(es))), Tail(es))

AsAlone(c) ==
    /\ c.st = "idle" => c = IdleCall
    /\ c.st = "open" =>
          /\ c.acc = AloneAcc(impl, EmptyAcc, c.got)
          /\ c.shots = AloneShots(impl, EmptyAcc, c.got)
    /\ c.st = "done" =>
          /\ c.out = <<StreamFinal(impl, AloneAcc(impl, EmptyAcc, c.got))>>
          /\ impl = "client" =>
                c.shots = Append(AloneShots(impl, EmptyAcc, c.got), c.out[1])
          /\ impl = "model" => c.shots = <<>>

\* C28: two streaming calls whose reads interleave do not affect each other:
\* the snapshots and the final message of each are those of the call alone
\* on its own stream; and a call that starts, also after the other has
\* finished, starts with empty content, no invocations and empty metadata.
C28_CallsIsolated ==
    /\ [](\A k \in 1..2 : AsAlone(pair[k]))
    /\ [][\A k \in 1..2 :
            (pair[k].st = "idle" /\ pair'[k].st = "open") => pair'[k].acc = EmptyAcc]_vars

\* both calls ended with different messages, the first having read while the
\* second was in the middle of its stream
C28_Witness ==
    /\ pair # <<>>
    /\ pair[1].st = "done" /\ pair[2].st = "done"
    /\ pair[1].mixed
    /\ Len(pair[1].got) = 2 /\ Len(pair[2].got) = 2
    /\ pair[1].out # pair[2].out


\* a tool result of the computer whose content is a URL and not a data URI
ToResolve(m) ==
    /\ IsComputerCallToolMessage(m)
    /\ IsUrl(m.content)
    /\ ~StartsWithDataImage(m.content)

NumToResolve(ms) == Cardinality({i \in 1..Len(ms) : ToResolve(ms[i])})

Twice(m) ==
    ConditionallyUpdateToolMessageContent(ConditionallyUpdateToolMessageContent(m))

\* C29: conditionallyUpdateToolMessageContent fetches and rewrites only
\* content that is a URL and not yet a data URI: the fetches callModelCustom
\* made are those of such messages, a message whose content is a data URI
\* comes back unchanged, and resolving twice gives what resolving once gives.
C29_ResolveOnlyBareUrls ==
    (entry = "custom" /\ apiKey /\ pc # "entry") =>
        /\ fetched = NumToResolve(Selected(history, zdr))
        /\ \A i \in 1..Len(history) :
              /\ StartsWithDataImage(history[i].content) =>
                    ConditionallyUpdateToolMessageContent(history[i]) = history[i]
              /\ Twice(history[i]) = ConditionallyUpdateToolMessageContent(history[i])


IsPrefix(s, t) == Len(s) <= Len(t) /\ SubSeq(t, 1, Len(s)) = s

\* the content delta of a parsed event
DeltaOf(e) == IF e.choice /\ e.delta THEN e.content ELSE <<>>

\* C30: in the sequence streamChatCompletion yields, the content of each
\* snapshot is a prefix of the content of every later one, and the content
\* of the final snapshot is the concatenation, in arrival order, of the
\* content deltas of the parsed events: every snapshot carries the
\* accumulated content, which only grows, by the delta of each parsed event
\* and by nothing else.
C30_ContentGrows ==
    /\ []((impl = "client" /\ last # <<>>) => last[1].content = acc.content)
    /\ [][(impl = "client" /\ last # <<>> /\ last' # <<>>)
            => IsPrefix(last[1].content, last'[1].content)]_vars
    /\ [][(impl = "client" /\ AtEvent)
            => acc'.content = acc.content \o DeltaOf(LineEvent(Head(pending)))]_vars
    /\ [][(impl = "client" /\ ~AtEvent) => acc'.content = acc.content]_vars

\* two content events and a line that is not JSON came before the close
C30_Witness ==
    /\ impl = "client" /\ pc = "done" /\ lastFinal /\ badSeen
    /\ last[1].content = <<"h", "i">>
    /\ yields >= 3


\* the final message that reflects every data line of the stream t, the
\* text after the last newline included
AllLinesMessage(im, t) == StreamFinal(im, RunLines(im, EmptyAcc, Split(t)))

\* C31: in both assemblers every well-formed data event received before the
\* connection closed is reflected in the final message, a last data line
\* that no newline follows included (streams without a sentinel).
C31_AllReceivedReflected ==
    (StreamEnded /\ unsent = <<>> /\ ~sawDone) =>
        FinalMessage = AllLinesMessage(impl, text)


=============================================================================
